---- MODULE Spec2Model ----
(***************************************************************************)
(* The terminal client of the todo application (crates/todo-tui) together  *)
(* with the service it talks to (crates/todo-server).                      *)
(*                                                                         *)
(* The client is one UI loop (drain events, draw, poll one key) and one    *)
(* spawned worker that receives Actions from an unbounded channel, calls   *)
(* the service over HTTP and sends TuiEvents back on a second channel.     *)
(* The service is a table of tasks.                                        *)
(***************************************************************************)
EXTENDS Integers, Sequences, FiniteSets, TLC

\* ------------------------------------------------------------- bounds

\* Actions the UI loop sends during one run of the client: in a run with the
\* list keys, and in a run with the edit keys or the menu keys.
MaxActions == 2
MaxActionsOtherKeys == 1

\* Longest text typed into the input buffer.
MaxInput == 1

\* Tasks added to a TodoList.
MaxListTasks == 3

\* Largest task-list cursor followed when no list bounds it (an empty list
\* in a build without overflow checks lets `down` count upwards).
MaxCursor == 1

\* usize::MAX, the value `len() - 1` wraps to on an empty list in a build
\* without overflow checks, scaled to the integers TLC computes with.
UsizeMax == 2147483647

\* ------------------------------------------------------- domain types

\* Option<T>
None == <<>>
Some(v) == <<v>>
IsSome(o) == o # <<>>
Unwrap(o) == o[1]

\* enum Priority { Low (default), Medium, High }
Priorities == {"Low", "Medium", "High"}
DefaultPriority == "Low"

\* enum Filter { All (default), Todo, Done, Priority(Priority) }
FilterAll == <<"All">>
FilterTodo == <<"Todo">>
FilterDone == <<"Done">>
FilterPriority(p) == <<"Priority", p>>
DefaultFilter == FilterAll

\* The characters a key press can append to the input buffer; a String is
\* the sequence of its characters.
Chars == {"a"}

\* struct Task { id, text, done, priority }
Task(id, text, done, priority) ==
    [id |-> id, text |-> text, done |-> done, priority |-> priority]

\* A conversion that drops the priority of Priority(p).
TaskQueryFromDoneOnly(f) ==
    CASE f = FilterTodo -> [done |-> Some(FALSE), priority |-> None]
      [] f = FilterDone -> [done |-> Some(TRUE), priority |-> None]
      [] OTHER          -> [done |-> None, priority |-> None]

\* impl From<Filter> for TaskQuery
TaskQueryFrom(f) ==
    CASE f = FilterAll  -> [done |-> None, priority |-> None]
      [] f = FilterTodo -> [done |-> Some(FALSE), priority |-> None]
      [] f = FilterDone -> [done |-> Some(TRUE), priority |-> None]
      [] OTHER          -> [done |-> None, priority |-> Some(f[2])]

\* ------------------------------------------------------------ service

\* fetch_todos: SELECT ... [WHERE done = ?] [AND|WHERE priority = ?]
QueryMatches(q, t) ==
    /\ (IsSome(q.done) => t.done = Unwrap(q.done))
    /\ (IsSome(q.priority) => t.priority = Unwrap(q.priority))

FetchTodos(table, q) == SelectSeq(table, LAMBDA t : QueryMatches(q, t))

\* The id the table gives an inserted row: one more than the largest id.
RECURSIVE MaxId(_)
MaxId(table) ==
    IF table = <<>> THEN 0
    ELSE LET m == MaxId(Tail(table))
         IN  IF Head(table).id > m THEN Head(table).id ELSE m

\* add_todo: INSERT INTO tasks (text, done, priority) values ($1, false, 'Low')
AddTodo(table, text) ==
    Append(table, Task(MaxId(table) + 1, text, FALSE, "Low"))

\* delete_task: DELETE FROM tasks WHERE id = $1
DeleteTask(table, id) == SelectSeq(table, LAMBDA t : t.id # id)

\* A COALESCE that always keeps the column.
CoalesceKeepsOld(o, old) == old

\* COALESCE($1, column)
Coalesce(o, old) == IF IsSome(o) THEN Unwrap(o) ELSE old

\* update_task: UPDATE tasks SET text = COALESCE($1, text), ... WHERE id = $4
UpdateTask(table, id, text, done, priority) ==
    [i \in 1..Len(table) |->
        IF table[i].id = id
        THEN Task(id, Coalesce(text, table[i].text),
                  Coalesce(done, table[i].done),
                  Coalesce(priority, table[i].priority))
        ELSE table[i]]

\* ------------------------------------------------- actions and events

\* enum Action { Fetch(filter), Create(text, filter), Delete(id, filter),
\*               Update(id, text?, done?, priority?, filter) }
\* n numbers the Actions in the order the UI loop sends them.
ActionFetch(n, f) ==
    [n |-> n, kind |-> "Fetch", id |-> 0, text |-> None, done |-> None,
     priority |-> None, filter |-> f]
ActionCreate(n, text, f) ==
    [n |-> n, kind |-> "Create", id |-> 0, text |-> Some(text), done |-> None,
     priority |-> None, filter |-> f]
ActionDelete(n, id, f) ==
    [n |-> n, kind |-> "Delete", id |-> id, text |-> None, done |-> None,
     priority |-> None, filter |-> f]
ActionUpdate(n, id, text, done, priority, f) ==
    [n |-> n, kind |-> "Update", id |-> id, text |-> text, done |-> done,
     priority |-> priority, filter |-> f]

NoAction == ActionFetch(0, DefaultFilter)

\* enum TuiEvent { TasksFetched(Vec<Task>), Error(String) }
\* (the message of an Error is only logged)
TasksFetched(ts) == [type |-> "TasksFetched", tasks |-> ts]
Error == [type |-> "Error", tasks |-> <<>>]

\* What the service does with the write of an Action.
ApplyWrite(table, a) ==
    CASE a.kind = "Create" -> AddTodo(table, Unwrap(a.text))
      [] a.kind = "Delete" -> DeleteTask(table, a.id)
      [] a.kind = "Update" -> UpdateTask(table, a.id, a.text, a.done, a.priority)
      [] OTHER             -> table

\* ------------------------------------------------- TodoList (model.rs)

\* impl Default for TodoList: no tasks, next_id 1
TodoListDefault == [tasks |-> <<>>, next_id |-> 1]

\* An add that hands out next_id without advancing it.
addReusingId(list, text) ==
    [tasks   |-> Append(list.tasks,
                        Task(list.next_id, text, FALSE, DefaultPriority)),
     next_id |-> list.next_id]

\* TodoList::add: push Task { id: next_id, text, done: false, priority:
\* Priority::default() }; next_id = id + 1
add(list, text) ==
    [tasks   |-> Append(list.tasks,
                        Task(list.next_id, text, FALSE, DefaultPriority)),
     next_id |-> list.next_id + 1]

\* self.tasks.iter_mut().find(|t| t.id == id): the index of the first task
\* of that id, 0 if there is none.
FindIndex(ts, id) ==
    IF \E i \in 1..Len(ts) : ts[i].id = id
    THEN CHOOSE i \in 1..Len(ts) :
            ts[i].id = id /\ \A j \in 1..(i - 1) : ts[j].id # id
    ELSE 0

\* TodoList::mark_done: task.done = true for the task found, else
\* Err(TaskNotFound) and the list as it was.
mark_done(list, id) ==
    LET i == FindIndex(list.tasks, id)
    IN  IF i = 0 THEN list
        ELSE [list EXCEPT !.tasks[i].done = TRUE]

\* TodoList::set_priority: task.priority = priority for the task found,
\* else Err(TaskNotFound) and the list as it was.
set_priority(list, id, p) ==
    LET i == FindIndex(list.tasks, id)
    IN  IF i = 0 THEN list
        ELSE [list EXCEPT !.tasks[i].priority = p]

\* -------------------------------------------------------------- state

VARIABLES
    db,                    \* the service's tasks table
    actionQ,               \* action_tx -> action_rx
    eventQ,                \* event_tx -> event_rx
    wpc,                   \* worker: "idle" (in recv), "write", "read" (in a
                           \*         call), "write_err" (its write failed)
    wcur,                  \* the Action the worker is processing
    uiPc,                  \* main: "init", "drain" (top of the loop), "poll"
                           \*       (after the draw), "quit", "failed", "panicked"
    rawMode,               \* the terminal is in raw mode
    tasks,                 \* app.tasks
    todo_state,            \* app.todo_state.selected()
    filter_state,          \* app.filter_state.selected()
    input,                 \* app.input
    mode,                  \* app.mode
    filter,                \* app.filter
    currently_editing_id,  \* app.currently_editing_id
    priority,              \* app.priority
    session,               \* the keys the user presses in this run
    nSent,                 \* Actions sent by the UI loop so far
    taken,                 \* Actions received by the worker so far
    lastOk,                \* the Action the worker finished last ended with
                           \* a list (Ok of fetch_tasks) and none is in work
    drainLog,              \* the drain in progress: the snapshot it started
                           \* from and the events it has applied so far
    todo_list              \* a TodoList (src/model.rs): tasks and next_id

appVars == <<tasks, todo_state, filter_state, input, mode, filter,
             currently_editing_id, priority>>
workerVars == <<wpc, wcur, taken, lastOk>>
vars == <<db, actionQ, eventQ, wpc, wcur, uiPc, rawMode,
          tasks, todo_state, filter_state, input, mode, filter,
          currently_editing_id, priority, session, nSent, taken, lastOk,
          drainLog, todo_list>>

\* Everything but the TodoList.
clientVars == <<db, actionQ, eventQ, wpc, wcur, uiPc, rawMode,
                tasks, todo_state, filter_state, input, mode, filter,
                currently_editing_id, priority, session, nSent, taken,
                lastOk, drainLog>>

\* The user of a run presses the keys of one of three sets (each named by
\* the handler it reaches): the keys that work on the list, those that edit
\* a text, and those of the filter menu and the priorities.
ListKeys ==
    {"NormalQuit", "NormalRefresh", "NormalDelete", "NormalToggle",
     "NormalDown", "NormalFilterMenu", "FilterDown", "FilterSubmit"}
EditKeys ==
    {"NormalQuit", "NormalDelete", "NormalDown", "NormalNew", "NormalEdit",
     "EditingEsc", "EditingChar", "EditingBackspace", "EditingSubmit"}
MenuKeys ==
    {"NormalUp", "NormalDown", "NormalFilterMenu",
     "NormalLowerPriority", "NormalRaisePriority", "FilterEsc",
     "FilterSubmit", "FilterUp", "FilterDown", "FilterLowerPriority",
     "FilterRaisePriority"}
Sessions == {"list keys", "edit keys", "menu keys"}

Pressed(key) ==
    CASE session = "list keys" -> key \in ListKeys
      [] session = "edit keys" -> key \in EditKeys
      [] OTHER                 -> key \in MenuKeys

\* The Actions the run may send.
ActionBudget ==
    IF session = "list keys" THEN MaxActions ELSE MaxActionsOtherKeys

\* The tables the service may hold when the client starts.
InitialTables ==
    { << Task(1, <<>>, FALSE, "Low"),
         Task(2, <<"a">>, TRUE, "Medium"),
         Task(3, <<>>, FALSE, "High") >> }

\* main, lines 66-67: nothing is constructed yet; the first statement of
\* main awaits fetch_tasks(Filter::default()).
Init ==
    /\ db \in InitialTables
    /\ actionQ = <<>>
    /\ eventQ = <<>>
    /\ wpc = "idle"
    /\ wcur = NoAction
    /\ uiPc = "init"
    /\ rawMode = FALSE
    /\ tasks = <<>>
    /\ todo_state = None
    /\ filter_state = None
    /\ input = <<>>
    /\ mode = "Normal"
    /\ filter = DefaultFilter
    /\ currently_editing_id = None
    /\ priority = DefaultPriority
    /\ session \in Sessions
    /\ nSent = 0
    /\ taken = 0
    /\ lastOk = FALSE
    /\ drainLog = [start |-> <<>>, events |-> <<>>]
    /\ todo_list = TodoListDefault

\* The client process is running its UI loop (the worker lives as long).
Running == uiPc \in {"drain", "poll"}

\* ------------------------------------------------------ initial fetch

\* main, lines 68-73 and 75-123: App { tasks: fetch_tasks(All).await
\* .unwrap_or_default(), ..Default::default() }, then the channels, the
\* worker, raw mode and the terminal.
InitialFetchReturn(ok) ==
    /\ uiPc = "init"
    /\ tasks' = IF ok THEN FetchTodos(db, TaskQueryFrom(DefaultFilter)) ELSE <<>>
    /\ uiPc' = "drain"
    /\ rawMode' = TRUE
    /\ drainLog' = [start |-> tasks', events |-> <<>>]
    /\ UNCHANGED <<db, actionQ, eventQ, workerVars, todo_state,
                   filter_state, input, mode, filter, currently_editing_id,
                   priority, nSent, session, todo_list>>

\* ------------------------------------------------------------- worker

\* A receive that hands out the newest Action instead of the oldest.
RecvNewest(q) == q[Len(q)]

\* action_rx.recv(): the oldest Action in the channel, and what is left.
RecvNext(q) == Head(q)
RecvRest(q) == Tail(q)

\* The worker is inside action_rx.recv().await, not inside a call.
WorkerAtRecv == wpc = "idle"

\* The call an Action starts with: fetch_tasks for Fetch, else its write.
FirstCall(a) == IF a.kind = "Fetch" THEN "read" ELSE "write"

\* while let Some(action) = action_rx.recv().await { match action { ... } }:
\* the worker takes the next Action and starts its first call.
WorkerRecv ==
    /\ Running
    /\ WorkerAtRecv
    /\ actionQ # <<>>
    /\ wcur' = RecvNext(actionQ)
    /\ actionQ' = RecvRest(actionQ)
    /\ taken' = taken + 1
    /\ wpc' = FirstCall(wcur')
    /\ lastOk' = FALSE
    /\ UNCHANGED <<db, eventQ, uiPc, rawMode, appVars, nSent, session, drainLog, todo_list>>

\* Where the worker goes when its write returns: Err => the arm that sends
\* the Error, Ok => the else arm, which calls fetch_tasks(filter).
AfterWrite(ok) == IF ok THEN "read" ELSE "write_err"

\* create_task / delete_task / update_task return: Err on a transport
\* error only (the status of the response is not looked at). A request
\* that ends in an error may or may not have reached the service.
WriteReturn(ok, applied) ==
    /\ Running
    /\ wpc = "write"
    /\ ok => applied
    /\ db' = IF applied THEN ApplyWrite(db, wcur) ELSE db
    /\ wpc' = AfterWrite(ok)
    /\ UNCHANGED <<actionQ, eventQ, wcur, taken, lastOk, uiPc, rawMode,
                   appVars, nSent, session, drainLog, todo_list>>

\* A worker that re-reads the list after a failed write.
AfterWriteErrorRefetch == "read"

\* A worker that ends when a write fails.
AfterWriteErrorStop == "stopped"

\* What the Err arm of a write sends, and where the worker goes then:
\* event_tx.send(TuiEvent::Error(e.to_string())), and back to recv.
WriteErrorEvents(q) == Append(q, Error)
AfterWriteError == "idle"

\* if let Err(e) = write(..).await { event_tx.send(Error(..)).unwrap(); }
WriteFailed ==
    /\ Running
    /\ wpc = "write_err"
    /\ eventQ' = WriteErrorEvents(eventQ)
    /\ wpc' = AfterWriteError
    /\ wcur' = IF wpc' = "idle" THEN NoAction ELSE wcur
    /\ UNCHANGED <<db, actionQ, taken, lastOk, uiPc, rawMode, appVars, nSent,
                   session, drainLog, todo_list>>

\* A follow-up read under the filter active when the read runs.
ReadFilterActive(a) == filter

\* The filter fetch_tasks is called with for an Action: the Action's own.
ReadFilter(a) == a.filter

\* The event the worker sends for the outcome of fetch_tasks(f).
ReadEvent(f, ok, table) ==
    IF ok THEN TasksFetched(FetchTodos(table, TaskQueryFrom(f))) ELSE Error

\* fetch_tasks(filter) returns (Err: the request failed or the body did
\* not decode); the worker sends the event and is back in recv.
ReadReturn(ok) ==
    /\ Running
    /\ wpc = "read"
    /\ eventQ' = Append(eventQ, ReadEvent(ReadFilter(wcur), ok, db))
    /\ wpc' = "idle"
    /\ wcur' = NoAction
    /\ lastOk' = ok
    /\ UNCHANGED <<db, actionQ, taken, uiPc, rawMode, appVars, nSent, session, drainLog, todo_list>>

Worker ==
    \/ WorkerRecv
    \/ \E ok, applied \in BOOLEAN : WriteReturn(ok, applied)
    \/ WriteFailed
    \/ \E ok \in BOOLEAN : ReadReturn(ok)

\* ------------------------------------------------------------ UI loop

\* A drain that empties the snapshot on an Error.
ApplyEventClearing(snapshot, e) ==
    IF e.type = "TasksFetched" THEN e.tasks ELSE <<>>

\* TuiEvent::TasksFetched(tasks) => app.tasks = tasks; Error(msg) => error!(..)
ApplyEvent(snapshot, e) == IF e.type = "TasksFetched" THEN e.tasks ELSE snapshot

\* while let Ok(event) = event_rx.try_recv() { ... }: one event is applied.
DrainOne ==
    /\ uiPc = "drain"
    /\ eventQ # <<>>
    /\ tasks' = ApplyEvent(tasks, Head(eventQ))
    /\ eventQ' = Tail(eventQ)
    /\ drainLog' = [drainLog EXCEPT !.events = Append(@, Head(eventQ))]
    /\ UNCHANGED <<db, actionQ, workerVars, uiPc, rawMode,
                   todo_state, filter_state, input, mode, filter,
                   currently_editing_id, priority, nSent, session, todo_list>>

\* get_menu_filters(app.priority)
get_menu_filters(cur_priority) ==
    << FilterAll, FilterTodo, FilterDone, FilterPriority(cur_priority) >>

\* What rendering a list of len items does to the ListState it is given:
\* an empty list unsets the selection, a selection past the end moves to
\* the last item.
RenderSelection(sel, len) ==
    IF len = 0 THEN None
    ELSE IF IsSome(sel) /\ Unwrap(sel) >= len THEN Some(len - 1)
    ELSE sel

\* A loop that draws after the first event even if more are queued.
DrawAnytime(areaEmpty) ==
    /\ uiPc = "drain"
    /\ todo_state' = IF mode # "Filter" /\ ~areaEmpty
                     THEN RenderSelection(todo_state, Len(tasks))
                     ELSE todo_state
    /\ filter_state' = IF mode = "Filter" /\ ~areaEmpty
                       THEN RenderSelection(filter_state, 4)
                       ELSE filter_state
    /\ uiPc' = "poll"
    /\ drainLog' = [start |-> tasks, events |-> <<>>]
    /\ UNCHANGED <<db, actionQ, eventQ, workerVars, rawMode,
                   tasks, input, mode, filter, currently_editing_id, priority,
                   nSent, session, todo_list>>

\* try_recv() finds the channel empty and the drain ends; then
\* terminal.draw(|f| ui(f, &mut app)): in Filter mode the task list is
\* rendered without its state and the menu with app.filter_state, else the
\* task list is rendered with app.todo_state. A list whose area is empty
\* (a terminal too small for it) is not rendered and its state is left as
\* it is.
Draw(areaEmpty) ==
    /\ uiPc = "drain"
    /\ eventQ = <<>>
    /\ todo_state' = IF mode # "Filter" /\ ~areaEmpty
                     THEN RenderSelection(todo_state, Len(tasks))
                     ELSE todo_state
    /\ filter_state' = IF mode = "Filter" /\ ~areaEmpty
                       THEN RenderSelection(filter_state, Len(get_menu_filters(priority)))
                       ELSE filter_state
    /\ uiPc' = "poll"
    /\ drainLog' = [start |-> tasks, events |-> <<>>]
    /\ UNCHANGED <<db, actionQ, eventQ, workerVars, rawMode,
                   tasks, input, mode, filter, currently_editing_id, priority,
                   nSent, session, todo_list>>

\* terminal.draw(..)?, event::poll(..)?, event::read()?: an I/O error
\* returns from main.
IoError ==
    /\ \/ uiPc = "drain" /\ eventQ = <<>>
       \/ uiPc = "poll"
    /\ uiPc' = "failed"
    /\ UNCHANGED <<db, actionQ, eventQ, workerVars, rawMode,
                   appVars, nSent, session, drainLog, todo_list>>

\* event::poll timed out, the event was no key, or the key is bound to
\* nothing in the mode (_ => {}).
PollIdle ==
    /\ uiPc = "poll"
    /\ uiPc' = "drain"
    /\ UNCHANGED <<db, actionQ, eventQ, workerVars, rawMode,
                   appVars, nSent, session, drainLog, todo_list>>

\* action_tx.send(a)
Send(a) ==
    /\ nSent < ActionBudget
    /\ actionQ' = Append(actionQ, a)
    /\ nSent' = nSent + 1

NoSend == UNCHANGED <<actionQ, nSent>>

\* What a key handler never touches.
KeyFrame ==
    UNCHANGED <<db, eventQ, workerVars, rawMode, session, drainLog, todo_list>>

\* A selection that falls back on the first task of the list.
SelectedTaskFirst ==
    IF IsSome(todo_state) /\ Unwrap(todo_state) < Len(tasks)
    THEN Some(tasks[Unwrap(todo_state) + 1])
    ELSE IF tasks # <<>> THEN Some(tasks[1]) ELSE None

\* app.tasks.get(index) for the selected index.
SelectedTask ==
    IF IsSome(todo_state) /\ Unwrap(todo_state) < Len(tasks)
    THEN Some(tasks[Unwrap(todo_state) + 1])
    ELSE None

\* A panic in a key handler unwinds main.
Panic ==
    /\ uiPc' = "panicked"
    /\ UNCHANGED <<appVars, actionQ, nSent>>

\* ------------------------------------------------ list navigation

\* len - 1 on usize: an empty list overflows, which panics in a build with
\* overflow checks and wraps to usize::MAX in one without.
LenMinusOne(len) == IF len = 0 THEN UsizeMax ELSE len - 1

\* Up: Some(0) => len - 1, Some(i) => i - 1, None => 0
UpIndex(sel, len) ==
    IF sel = None THEN 0
    ELSE IF Unwrap(sel) = 0 THEN LenMinusOne(len)
    ELSE Unwrap(sel) - 1
UpOverflows(sel, len) == IsSome(sel) /\ Unwrap(sel) = 0 /\ len = 0

\* Down: Some(i) => if i >= len - 1 { 0 } else { i + 1 }, None => 0
DownIndex(sel, len) ==
    IF sel = None THEN 0
    ELSE IF Unwrap(sel) >= LenMinusOne(len) THEN 0
    ELSE Unwrap(sel) + 1
DownOverflows(sel, len) == IsSome(sel) /\ len = 0

\* The cursor values the model follows.
Followed(i, len) == i < len \/ i <= MaxCursor \/ i = UsizeMax

\* ------------------------------------------------------- Normal mode

\* KeyCode::Char('q') => break; then disable_raw_mode()
NormalQuit ==
    /\ uiPc = "poll" /\ mode = "Normal" /\ Pressed("NormalQuit")
    /\ uiPc' = "quit"
    /\ rawMode' = FALSE
    /\ UNCHANGED <<db, actionQ, eventQ, workerVars, appVars,
                   nSent, session, drainLog, todo_list>>

\* KeyCode::Char('r') => action_tx.send(Action::Fetch(app.filter))?
NormalRefresh ==
    /\ uiPc = "poll" /\ mode = "Normal" /\ Pressed("NormalRefresh")
    /\ Send(ActionFetch(nSent + 1, filter))
    /\ uiPc' = "drain"
    /\ UNCHANGED appVars
    /\ KeyFrame

\* KeyCode::Char('i') => app.mode = InputMode::Editing
NormalNew ==
    /\ uiPc = "poll" /\ mode = "Normal" /\ Pressed("NormalNew")
    /\ mode' = "Editing"
    /\ uiPc' = "drain"
    /\ UNCHANGED <<tasks, todo_state, filter_state, input, filter,
                   currently_editing_id, priority>>
    /\ NoSend
    /\ KeyFrame

\* KeyCode::Char('e'): with a selected task, record its id, enter Editing
\* and append its text to the buffer.
NormalEdit ==
    /\ uiPc = "poll" /\ mode = "Normal" /\ Pressed("NormalEdit")
    /\ IF IsSome(SelectedTask)
       THEN /\ currently_editing_id' = Some(Unwrap(SelectedTask).id)
            /\ mode' = "Editing"
            /\ input' = input \o Unwrap(SelectedTask).text
       ELSE UNCHANGED <<currently_editing_id, mode, input>>
    /\ uiPc' = "drain"
    /\ UNCHANGED <<tasks, todo_state, filter_state, filter, priority>>
    /\ NoSend
    /\ KeyFrame

\* KeyCode::Char('d'): Delete(task.id, app.filter) for the selected task.
NormalDelete ==
    /\ uiPc = "poll" /\ mode = "Normal" /\ Pressed("NormalDelete")
    /\ IF IsSome(SelectedTask)
       THEN Send(ActionDelete(nSent + 1, Unwrap(SelectedTask).id, filter))
       ELSE NoSend
    /\ uiPc' = "drain"
    /\ UNCHANGED appVars
    /\ KeyFrame

\* An f that opens the menu with the cursor it had.
NormalFilterMenuKeepsCursor ==
    /\ uiPc = "poll" /\ mode = "Normal" /\ Pressed("NormalFilterMenu")
    /\ mode' = "Filter"
    /\ uiPc' = "drain"
    /\ UNCHANGED <<tasks, todo_state, filter_state, input, filter,
                   currently_editing_id, priority>>
    /\ NoSend
    /\ KeyFrame

\* KeyCode::Char('f') => mode = Filter; filter_state.select(Some(0))
NormalFilterMenu ==
    /\ uiPc = "poll" /\ mode = "Normal" /\ Pressed("NormalFilterMenu")
    /\ mode' = "Filter"
    /\ filter_state' = Some(0)
    /\ uiPc' = "drain"
    /\ UNCHANGED <<tasks, todo_state, input, filter, currently_editing_id, priority>>
    /\ NoSend
    /\ KeyFrame

\* A toggle that always asks for done = true.
NormalToggleSetsDone ==
    /\ uiPc = "poll" /\ mode = "Normal" /\ Pressed("NormalToggle")
    /\ IF IsSome(SelectedTask)
       THEN Send(ActionUpdate(nSent + 1, Unwrap(SelectedTask).id, None,
                              Some(TRUE), None, filter))
       ELSE NoSend
    /\ uiPc' = "drain"
    /\ UNCHANGED appVars
    /\ KeyFrame

\* KeyCode::Enter: Update(task.id, None, Some(!task.done), None, app.filter)
NormalToggle ==
    /\ uiPc = "poll" /\ mode = "Normal" /\ Pressed("NormalToggle")
    /\ IF IsSome(SelectedTask)
       THEN Send(ActionUpdate(nSent + 1, Unwrap(SelectedTask).id, None,
                              Some(~Unwrap(SelectedTask).done), None, filter))
       ELSE NoSend
    /\ uiPc' = "drain"
    /\ UNCHANGED appVars
    /\ KeyFrame

\* KeyCode::Up | KeyCode::Char('k')
NormalUp(overflowChecks) ==
    /\ uiPc = "poll" /\ mode = "Normal" /\ Pressed("NormalUp")
    /\ IF UpOverflows(todo_state, Len(tasks)) /\ overflowChecks
       THEN Panic
       ELSE /\ Followed(UpIndex(todo_state, Len(tasks)), Len(tasks))
            /\ todo_state' = Some(UpIndex(todo_state, Len(tasks)))
            /\ uiPc' = "drain"
            /\ UNCHANGED <<tasks, filter_state, input, mode, filter,
                           currently_editing_id, priority>>
            /\ NoSend
    /\ KeyFrame

\* KeyCode::Down | KeyCode::Char('j')
NormalDown(overflowChecks) ==
    /\ uiPc = "poll" /\ mode = "Normal" /\ Pressed("NormalDown")
    /\ IF DownOverflows(todo_state, Len(tasks)) /\ overflowChecks
       THEN Panic
       ELSE /\ Followed(DownIndex(todo_state, Len(tasks)), Len(tasks))
            /\ todo_state' = Some(DownIndex(todo_state, Len(tasks)))
            /\ uiPc' = "drain"
            /\ UNCHANGED <<tasks, filter_state, input, mode, filter,
                           currently_editing_id, priority>>
            /\ NoSend
    /\ KeyFrame

\* A decrease that stops at Low.
LowerPrioritySaturating(p) ==
    CASE p = "Low" -> "Low" [] p = "Medium" -> "Low" [] OTHER -> "Medium"

\* Ctrl-x: Low => High, Medium => Low, High => Medium
LowerPriority(p) ==
    CASE p = "Low" -> "High" [] p = "Medium" -> "Low" [] OTHER -> "Medium"

\* Ctrl-a: Low => Medium, Medium => High, High => Low
RaisePriority(p) ==
    CASE p = "Low" -> "Medium" [] p = "Medium" -> "High" [] OTHER -> "Low"

\* KeyCode::Char('x') with CONTROL: Update(id, None, None, Some(new_prio), filter)
NormalLowerPriority ==
    /\ uiPc = "poll" /\ mode = "Normal" /\ Pressed("NormalLowerPriority")
    /\ IF IsSome(SelectedTask)
       THEN Send(ActionUpdate(nSent + 1, Unwrap(SelectedTask).id, None, None,
                              Some(LowerPriority(Unwrap(SelectedTask).priority)),
                              filter))
       ELSE NoSend
    /\ uiPc' = "drain"
    /\ UNCHANGED appVars
    /\ KeyFrame

\* KeyCode::Char('a') with CONTROL
NormalRaisePriority ==
    /\ uiPc = "poll" /\ mode = "Normal" /\ Pressed("NormalRaisePriority")
    /\ IF IsSome(SelectedTask)
       THEN Send(ActionUpdate(nSent + 1, Unwrap(SelectedTask).id, None, None,
                              Some(RaisePriority(Unwrap(SelectedTask).priority)),
                              filter))
       ELSE NoSend
    /\ uiPc' = "drain"
    /\ UNCHANGED appVars
    /\ KeyFrame

NormalKey ==
    \/ NormalQuit
    \/ NormalRefresh
    \/ NormalNew
    \/ NormalEdit
    \/ NormalDelete
    \/ NormalFilterMenu
    \/ NormalToggle
    \/ \E overflowChecks \in BOOLEAN : NormalUp(overflowChecks)
    \/ \E overflowChecks \in BOOLEAN : NormalDown(overflowChecks)
    \/ NormalLowerPriority
    \/ NormalRaisePriority

\* ------------------------------------------------------ Editing mode

\* An Esc that leaves the buffer as typed.
EditingEscKeepsBuffer ==
    /\ uiPc = "poll" /\ mode = "Editing" /\ Pressed("EditingEsc")
    /\ mode' = "Normal"
    /\ uiPc' = "drain"
    /\ UNCHANGED <<tasks, todo_state, filter_state, input, filter,
                   currently_editing_id, priority>>
    /\ NoSend
    /\ KeyFrame

\* KeyCode::Esc => mode = Normal; input.clear()
EditingEsc ==
    /\ uiPc = "poll" /\ mode = "Editing" /\ Pressed("EditingEsc")
    /\ mode' = "Normal"
    /\ input' = <<>>
    /\ uiPc' = "drain"
    /\ UNCHANGED <<tasks, todo_state, filter_state, filter,
                   currently_editing_id, priority>>
    /\ NoSend
    /\ KeyFrame

\* KeyCode::Char(c) => input.push(c)
EditingChar(c) ==
    /\ uiPc = "poll" /\ mode = "Editing" /\ Pressed("EditingChar")
    /\ Len(input) < MaxInput
    /\ input' = Append(input, c)
    /\ uiPc' = "drain"
    /\ UNCHANGED <<tasks, todo_state, filter_state, mode, filter,
                   currently_editing_id, priority>>
    /\ NoSend
    /\ KeyFrame

\* KeyCode::Backspace => input.pop()
EditingBackspace ==
    /\ uiPc = "poll" /\ mode = "Editing" /\ Pressed("EditingBackspace")
    /\ input' = IF input = <<>> THEN <<>> ELSE SubSeq(input, 1, Len(input) - 1)
    /\ uiPc' = "drain"
    /\ UNCHANGED <<tasks, todo_state, filter_state, mode, filter,
                   currently_editing_id, priority>>
    /\ NoSend
    /\ KeyFrame

\* app.tasks.iter().find(|t| t.id == id)
RECURSIVE FindTask(_, _)
FindTask(ts, id) ==
    IF ts = <<>> THEN None
    ELSE IF Head(ts).id = id THEN Some(Head(ts))
    ELSE FindTask(Tail(ts), id)

\* The edit target Enter acts on.
EditTarget == currently_editing_id

\* KeyCode::Enter: with an edit target, find its task in app.tasks, unwrap
\* it, send Update(task.id, Some(input), Some(task.done), None, filter) and
\* unset the target; else send Create(input, filter). Then clear the
\* buffer and return to Normal.
EditingSubmit ==
    /\ uiPc = "poll" /\ mode = "Editing" /\ Pressed("EditingSubmit")
    /\ IF IsSome(EditTarget)
       THEN IF FindTask(tasks, Unwrap(EditTarget)) = None
            THEN Panic
            ELSE LET task == Unwrap(FindTask(tasks, Unwrap(EditTarget)))
                 IN  /\ Send(ActionUpdate(nSent + 1, task.id, Some(input),
                                          Some(task.done), None, filter))
                     /\ currently_editing_id' = None
                     /\ input' = <<>>
                     /\ mode' = "Normal"
                     /\ uiPc' = "drain"
                     /\ UNCHANGED <<tasks, todo_state, filter_state, filter, priority>>
       ELSE /\ Send(ActionCreate(nSent + 1, input, filter))
            /\ input' = <<>>
            /\ mode' = "Normal"
            /\ uiPc' = "drain"
            /\ UNCHANGED <<tasks, todo_state, filter_state, filter,
                           currently_editing_id, priority>>
    /\ KeyFrame

EditingKey ==
    \/ EditingEsc
    \/ \E c \in Chars : EditingChar(c)
    \/ EditingBackspace
    \/ EditingSubmit

\* -------------------------------------------------- Filter-menu mode

\* get_menu_filters(app.priority).get(index) for the selected index.
SelectedFilter ==
    IF IsSome(filter_state)
       /\ Unwrap(filter_state) < Len(get_menu_filters(priority))
    THEN Some(get_menu_filters(priority)[Unwrap(filter_state) + 1])
    ELSE None

\* An Esc that makes the entry under the cursor the active filter.
FilterEscApplies ==
    /\ uiPc = "poll" /\ mode = "Filter" /\ Pressed("FilterEsc")
    /\ filter' = IF IsSome(SelectedFilter) THEN Unwrap(SelectedFilter) ELSE filter
    /\ mode' = "Normal"
    /\ uiPc' = "drain"
    /\ UNCHANGED <<tasks, todo_state, filter_state, input,
                   currently_editing_id, priority>>
    /\ NoSend
    /\ KeyFrame

\* KeyCode::Esc => mode = Normal
FilterEsc ==
    /\ uiPc = "poll" /\ mode = "Filter" /\ Pressed("FilterEsc")
    /\ mode' = "Normal"
    /\ uiPc' = "drain"
    /\ UNCHANGED <<tasks, todo_state, filter_state, input, filter,
                   currently_editing_id, priority>>
    /\ NoSend
    /\ KeyFrame

\* A submit that sets the filter and sends no Fetch.
FilterSubmitNoFetch ==
    /\ uiPc = "poll" /\ mode = "Filter" /\ Pressed("FilterSubmit")
    /\ filter' = IF IsSome(SelectedFilter) THEN Unwrap(SelectedFilter) ELSE filter
    /\ NoSend
    /\ mode' = "Normal"
    /\ uiPc' = "drain"
    /\ UNCHANGED <<tasks, todo_state, filter_state, input,
                   currently_editing_id, priority>>
    /\ KeyFrame

\* KeyCode::Enter: app.filter = *filter; send Fetch(app.filter); mode = Normal
FilterSubmit ==
    /\ uiPc = "poll" /\ mode = "Filter" /\ Pressed("FilterSubmit")
    /\ IF IsSome(SelectedFilter)
       THEN /\ filter' = Unwrap(SelectedFilter)
            /\ Send(ActionFetch(nSent + 1, filter'))
       ELSE /\ UNCHANGED filter
            /\ NoSend
    /\ mode' = "Normal"
    /\ uiPc' = "drain"
    /\ UNCHANGED <<tasks, todo_state, filter_state, input,
                   currently_editing_id, priority>>
    /\ KeyFrame

\* KeyCode::Up | KeyCode::Char('k') on the four menu entries
FilterUp ==
    /\ uiPc = "poll" /\ mode = "Filter" /\ Pressed("FilterUp")
    /\ filter_state' = Some(UpIndex(filter_state, Len(get_menu_filters(priority))))
    /\ uiPc' = "drain"
    /\ UNCHANGED <<tasks, todo_state, input, mode, filter,
                   currently_editing_id, priority>>
    /\ NoSend
    /\ KeyFrame

\* KeyCode::Down | KeyCode::Char('j')
FilterDown ==
    /\ uiPc = "poll" /\ mode = "Filter" /\ Pressed("FilterDown")
    /\ filter_state' = Some(DownIndex(filter_state, Len(get_menu_filters(priority))))
    /\ uiPc' = "drain"
    /\ UNCHANGED <<tasks, todo_state, input, mode, filter,
                   currently_editing_id, priority>>
    /\ NoSend
    /\ KeyFrame

\* The selected menu entry is the Priority entry.
OnPriorityEntry ==
    IsSome(SelectedFilter) /\ Unwrap(SelectedFilter)[1] = "Priority"

\* KeyCode::Char('x') with CONTROL on the Priority entry
FilterLowerPriority ==
    /\ uiPc = "poll" /\ mode = "Filter" /\ Pressed("FilterLowerPriority")
    /\ priority' = IF OnPriorityEntry THEN LowerPriority(priority) ELSE priority
    /\ uiPc' = "drain"
    /\ UNCHANGED <<tasks, todo_state, filter_state, input, mode, filter,
                   currently_editing_id>>
    /\ NoSend
    /\ KeyFrame

\* KeyCode::Char('a') with CONTROL on the Priority entry
FilterRaisePriority ==
    /\ uiPc = "poll" /\ mode = "Filter" /\ Pressed("FilterRaisePriority")
    /\ priority' = IF OnPriorityEntry THEN RaisePriority(priority) ELSE priority
    /\ uiPc' = "drain"
    /\ UNCHANGED <<tasks, todo_state, filter_state, input, mode, filter,
                   currently_editing_id>>
    /\ NoSend
    /\ KeyFrame

FilterKey ==
    \/ FilterEsc
    \/ FilterSubmit
    \/ FilterUp
    \/ FilterDown
    \/ FilterLowerPriority
    \/ FilterRaisePriority

\* impl Display for Priority
PriorityText(p) ==
    CASE p = "Low"    -> "(L)"
      [] p = "Medium" -> "(M)"
      [] p = "High"   -> "(H)"

\* impl Display for Filter: the words of "All", "Todo", "Done",
\* "Priority {priority}"
FilterText(f) ==
    IF f[1] = "Priority" THEN <<"Priority", PriorityText(f[2])>> ELSE <<f[1]>>

\* ui: list_filter, the words in the title of the task list; for a
\* Priority filter they are built from app.priority.
list_filter ==
    IF filter[1] = "Priority" THEN <<"Priority", PriorityText(priority)>>
    ELSE FilterText(filter)

\* ------------------------------------------------------ specification

\* The steps the UI loop takes by itself: none of them is a remote call.
UILoop ==
    \/ DrainOne
    \/ \E areaEmpty \in BOOLEAN : Draw(areaEmpty)
    \/ PollIdle
    \/ NormalKey
    \/ EditingKey
    \/ FilterKey

Next ==
    \/ \E ok \in BOOLEAN : InitialFetchReturn(ok)
    \/ UILoop
    \/ IoError
    \/ Worker

Spec == Init /\ [][Next]_vars

\* The worker makes progress whenever it can: tokio runs the spawned task,
\* and every remote call returns (with a result or with an error).
FairSpec == Spec /\ WF_vars(Worker)

\* The texts a task can be created with.
Texts == UNION {[1..n -> Chars] : n \in 0..MaxInput}

\* A TodoList on its own: any sequence of add, mark_done and set_priority
\* on the default list.
ListInit ==
    /\ Init
    /\ session = "list keys"

ListAdd(text) ==
    /\ Len(todo_list.tasks) < MaxListTasks
    /\ todo_list' = add(todo_list, text)
    /\ UNCHANGED clientVars

ListMarkDone(id) ==
    /\ todo_list' = mark_done(todo_list, id)
    /\ UNCHANGED clientVars

ListSetPriority(id, p) ==
    /\ todo_list' = set_priority(todo_list, id, p)
    /\ UNCHANGED clientVars

ListNext ==
    \/ \E text \in Texts : ListAdd(text)
    \/ \E id \in 0..(MaxListTasks + 1) : ListMarkDone(id)
    \/ \E id \in 0..(MaxListTasks + 1), p \in Priorities : ListSetPriority(id, p)

ListSpec == ListInit /\ [][ListNext]_vars

\* ------------------------------------------------------------ properties

\* Actions are numbered in the order they are sent: the channel holds
\* taken+1 .. nSent, oldest first.
QueueInSendOrder ==
    /\ nSent = taken + Len(actionQ)
    /\ \A i \in 1..Len(actionQ) : actionQ[i].n = taken + i
    /\ wpc # "idle" => wcur.n = taken

\* The worker takes an Action only from recv, and it is the oldest one.
TakesOldestAtRecv ==
    taken' # taken =>
        /\ wpc = "idle"
        /\ taken' = taken + 1
        /\ wcur' = Head(actionQ)
        /\ wcur'.n = taken'
        /\ actionQ' = Tail(actionQ)
        /\ wpc' = FirstCall(wcur')

\* The calls of one Action follow each other and end before the next recv.
CallsOfOneAction ==
    (wpc # "idle" /\ wpc' # wpc) =>
        /\ taken' = taken
        /\ \/ wpc' = "idle"
           \/ wpc = "write" /\ wpc' \in {"read", "write_err"} /\ wcur' = wcur

\* C1: the dispatcher processes Actions one at a time in the order they
\* were enqueued: it takes the oldest Action only when no call is in
\* flight, every call it makes belongs to the Action it took last, and no
\* Action is skipped or taken twice.
C1_OneAtATimeInOrder ==
    /\ []QueueInSendOrder
    /\ [][TakesOldestAtRecv /\ CallsOfOneAction]_vars

\* The follow-up read of the first Action is in flight while the second
\* Action waits in the channel.
C1_Witness ==
    /\ taken = 1 /\ wpc = "read" /\ wcur.kind # "Fetch"
    /\ Len(actionQ) = 1 /\ actionQ[1].n = 2

\* C2: when the write of a Create, Delete or Update fails, the worker
\* sends exactly one Error event, makes no follow-up read and goes back to
\* recv: no TasksFetched is sent for that Action and no further call
\* reaches the service.
C2_FailedWriteOneError ==
    [][ /\ (wpc = "write" /\ wpc' = "write_err") => eventQ' = eventQ
        /\ (wpc = "write_err" /\ wpc' # "write_err") =>
              /\ wpc' = "idle"
              /\ eventQ' = Append(eventQ, Error)
              /\ db' = db
              /\ taken' = taken ]_vars

\* The write of an Update has failed while another Action waits.
C2_Witness ==
    /\ wpc = "write_err" /\ wcur.kind = "Update"
    /\ actionQ # <<>>

\* C3: when the write of a Create, Delete or Update succeeds, the worker
\* makes exactly one follow-up read, under the filter attached to the
\* Action and not the filter active when the read runs, and sends exactly
\* one event for the Action: TasksFetched with what the read returned, or
\* Error if the read failed.
C3_WriteThenOneReadWithOwnFilter ==
    [][ /\ (wpc = "write" /\ wpc' \notin {"write", "write_err"}) =>
              (wpc' = "read" /\ wcur' = wcur /\ eventQ' = eventQ)
        /\ (wpc = "read" /\ wcur.kind # "Fetch" /\ wpc' # "read") =>
              /\ wpc' = "idle"
              /\ taken' = taken
              /\ \/ eventQ' = Append(eventQ,
                        TasksFetched(FetchTodos(db, TaskQueryFrom(wcur.filter))))
                 \/ eventQ' = Append(eventQ, Error) ]_vars

\* A Delete was applied and its follow-up read is in flight, after the
\* user chose another filter.
C3_Witness ==
    /\ wpc = "read" /\ wcur.kind = "Delete"
    /\ filter # wcur.filter
    /\ FetchTodos(db, TaskQueryFrom(filter))
         # FetchTodos(db, TaskQueryFrom(wcur.filter))

\* C4: once the App is built, the snapshot changes only when the drain
\* applies a TasksFetched event, and becomes that event's payload; no key
\* handler, no Error event and no step of the worker changes it.
C4_SnapshotOnlyFromDrain ==
    [][ (uiPc # "init" /\ tasks' # tasks) =>
            /\ uiPc = "drain"
            /\ eventQ # <<>>
            /\ Head(eventQ).type = "TasksFetched"
            /\ tasks' = Head(eventQ).tasks
            /\ eventQ' = Tail(eventQ) ]_vars

\* The drain is about to apply an Error to a snapshot that holds tasks.
C4_Witness ==
    /\ uiPc = "drain" /\ eventQ # <<>>
    /\ Head(eventQ).type = "Error"
    /\ tasks # <<>>

\* C5: the UI never waits on a remote call: as long as main has not
\* returned, the UI loop can take its next step (drain, draw or poll)
\* whatever the service does, the initial load included.
C5_UINeverWaits ==
    uiPc \notin {"quit", "failed", "panicked"} => ENABLED UILoop

\* Action n has been taken by the worker and all its calls have returned.
Processed(n) == taken > n \/ (taken = n /\ wpc = "idle")

\* C6: a failed call never stops the worker: every Action sent is
\* eventually processed to the end (its event sent), as long as the calls
\* return and the UI loop is running.
C6_EveryActionProcessed ==
    \A n \in 1..MaxActions : (nSent >= n) ~> (Processed(n) \/ ~Running)

\* The first Action ended with an Error and the second one with a list.
C6_Witness ==
    /\ taken = 2 /\ wpc = "idle"
    /\ Len(eventQ) = 2
    /\ eventQ[1].type = "Error" /\ eventQ[2].type = "TasksFetched"

\* An up or a down press in Normal mode.
NavPress == \E overflowChecks \in BOOLEAN :
                NormalUp(overflowChecks) \/ NormalDown(overflowChecks)

\* C7: on a non-empty list an up or down press leaves the cursor on an
\* index of the list: down on the last task goes to the first, up on the
\* first goes to the last.
C7_CursorStaysInList ==
    [][ (tasks # <<>> /\ NavPress) =>
            /\ IsSome(todo_state')
            /\ Unwrap(todo_state') < Len(tasks) ]_vars

\* C8: on an empty list an up or down press leaves the cursor unset and
\* does not fail, whatever the cursor was.
C8_EmptyListNoCursor ==
    [][ (tasks = <<>> /\ NavPress) =>
            (todo_state' = None /\ uiPc' # "panicked") ]_vars

\* C9: the new key always starts a creation: it enters Editing with an
\* empty buffer and no edit target, also after an edit cancelled with Esc.
C9_NewStartsCreation ==
    [][ NormalNew =>
            /\ mode' = "Editing"
            /\ input' = <<>>
            /\ currently_editing_id' = None ]_vars

\* C10: a submit in Editing mode sends exactly one Action, Update of the
\* edit target with the buffer as text if a target is set and else Create
\* with the buffer as text, then empties the buffer, unsets the target and
\* returns to Normal mode.
C10_SubmitSendsOneAction ==
    [][ EditingSubmit =>
            /\ Len(actionQ') = Len(actionQ) + 1
            /\ LET a == actionQ'[Len(actionQ')]
               IN  /\ a.text = Some(input)
                   /\ a.filter = filter
                   /\ a.kind = (IF IsSome(currently_editing_id)
                                THEN "Update" ELSE "Create")
                   /\ IsSome(currently_editing_id) =>
                          a.id = Unwrap(currently_editing_id)
            /\ input' = <<>>
            /\ currently_editing_id' = None
            /\ mode' = "Normal" ]_vars

\* The cursor of the task list is on a task of the snapshot, and that task.
HasSelection == IsSome(todo_state) /\ Unwrap(todo_state) < Len(tasks)
CursorTask == tasks[Unwrap(todo_state) + 1]

\* C11: the edit key in Normal mode sends no Action; with the cursor on a
\* task it enters Editing with the buffer equal to that task's text and the
\* edit target equal to that task's id, and with no task under the cursor
\* it changes nothing.
C11_EditLoadsSelectedTask ==
    [][ NormalEdit =>
            /\ actionQ' = actionQ
            /\ IF HasSelection
               THEN /\ mode' = "Editing"
                    /\ input' = CursorTask.text
                    /\ currently_editing_id' = Some(CursorTask.id)
                    /\ UNCHANGED <<tasks, todo_state, filter, priority>>
               ELSE UNCHANGED appVars ]_vars

\* The edit key was pressed on the second task, whose text is not empty.
C11_Witness ==
    /\ mode = "Editing" /\ uiPc = "drain"
    /\ todo_state = Some(1)
    /\ currently_editing_id = Some(2)
    /\ input = <<"a">>

\* C12: Esc in Editing mode sends no Action, empties the buffer and
\* returns to Normal mode; the snapshot and the active filter are unchanged.
C12_EscDiscardsBuffer ==
    [][ EditingEsc =>
            /\ actionQ' = actionQ
            /\ input' = <<>>
            /\ mode' = "Normal"
            /\ tasks' = tasks
            /\ filter' = filter ]_vars

\* Esc was pressed after a character was typed: Normal mode, empty buffer,
\* nothing sent.
C12_Witness ==
    /\ mode = "Normal" /\ uiPc = "drain"
    /\ input = <<>>
    /\ IsSome(currently_editing_id)
    /\ nSent = 0

\* C13: Enter in Normal mode changes no local state; with the cursor on a
\* task it sends exactly one Update(id, no text, done = the negation of the
\* snapshot's done, no priority, active filter), else it sends nothing.
C13_ToggleSendsNegatedDone ==
    [][ NormalToggle =>
            /\ UNCHANGED appVars
            /\ IF HasSelection
               THEN actionQ' = Append(actionQ,
                        ActionUpdate(nSent + 1, CursorTask.id, None,
                                     Some(~CursorTask.done), None, filter))
               ELSE actionQ' = actionQ ]_vars

\* The toggle of the task that is done waits in the channel.
C13_Witness ==
    /\ actionQ # <<>>
    /\ actionQ[Len(actionQ)].kind = "Update"
    /\ actionQ[Len(actionQ)].id = 2
    /\ actionQ[Len(actionQ)].done = Some(FALSE)
    /\ actionQ[Len(actionQ)].text = None

\* Increase: Low -> Medium -> High -> Low.
IncreaseTable(p) ==
    CASE p = "Low" -> "Medium" [] p = "Medium" -> "High" [] OTHER -> "Low"

\* Increase is the 3-cycle, decrease is its inverse.
PriorityCycle ==
    \A p \in Priorities :
        /\ RaisePriority(p) = IncreaseTable(p)
        /\ LowerPriority(RaisePriority(p)) = p
        /\ RaisePriority(LowerPriority(p)) = p
        /\ RaisePriority(RaisePriority(RaisePriority(p))) = p

\* C14: priority cycling is a 3-cycle (increase: Low, Medium, High, Low;
\* decrease its inverse; three increases are the identity), and in Normal
\* mode the increase or decrease key on the task under the cursor sends one
\* Update with that next priority, no text and no done.
C14_PriorityThreeCycle ==
    /\ []PriorityCycle
    /\ [][ /\ (NormalRaisePriority /\ HasSelection) =>
                 actionQ' = Append(actionQ,
                     ActionUpdate(nSent + 1, CursorTask.id, None, None,
                                  Some(IncreaseTable(CursorTask.priority)),
                                  filter))
           /\ (NormalLowerPriority /\ HasSelection) =>
                 /\ Len(actionQ') = Len(actionQ) + 1
                 /\ LET a == actionQ'[Len(actionQ')]
                    IN  /\ a.kind = "Update" /\ a.id = CursorTask.id
                        /\ a.text = None /\ a.done = None
                        /\ IsSome(a.priority)
                        /\ IncreaseTable(Unwrap(a.priority))
                             = CursorTask.priority ]_vars

\* An increase on the task of priority High wrapped to Low.
C14_Witness ==
    /\ actionQ # <<>>
    /\ actionQ[1].kind = "Update" /\ actionQ[1].id = 3
    /\ actionQ[1].priority = Some("Low")
    /\ actionQ[1].text = None /\ actionQ[1].done = None

\* In the filter menu the cursor is on one of the four entries.
MenuCursorValid ==
    mode = "Filter" => (IsSome(filter_state) /\ Unwrap(filter_state) < 4)

\* C15: Enter in the filter menu makes the entry under the cursor of
\* [All, Todo, Done, Priority(considered priority)] the active filter,
\* sends exactly one Fetch with it and returns to Normal mode; the menu
\* cursor is always on one of the four entries.
C15_FilterSubmit ==
    /\ []MenuCursorValid
    /\ [][ (FilterSubmit /\ MenuCursorValid) =>
             LET entry == << FilterAll, FilterTodo, FilterDone,
                             FilterPriority(priority) >>[Unwrap(filter_state) + 1]
             IN  /\ filter' = entry
                 /\ actionQ' = Append(actionQ, ActionFetch(nSent + 1, entry))
                 /\ mode' = "Normal" ]_vars

\* The fourth entry was submitted after the considered priority was cycled.
C15_Witness ==
    /\ mode = "Normal"
    /\ filter = FilterPriority("Medium")
    /\ Len(actionQ) = 1
    /\ actionQ[1].kind = "Fetch" /\ actionQ[1].filter = filter

\* C16: in the filter menu Esc, the cursor keys and the priority keys
\* leave the active filter as it is and send nothing; the active filter
\* changes only by Enter in the filter menu (no drain, refresh, Normal or
\* Editing key changes it).
C16_FilterOnlyBySubmit ==
    [][ /\ (filter' # filter) => FilterSubmit
        /\ (FilterEsc \/ FilterUp \/ FilterDown
              \/ FilterLowerPriority \/ FilterRaisePriority) =>
              (filter' = filter /\ actionQ' = actionQ) ]_vars

\* The menu was left with Esc after the cursor was moved to the fourth
\* entry and the considered priority was cycled.
C16_Witness ==
    /\ mode = "Normal"
    /\ filter_state = Some(3)
    /\ priority # DefaultPriority
    /\ filter = FilterAll
    /\ nSent = 0

\* Nothing is in flight and the Action finished last ended with a list.
Settled ==
    /\ actionQ = <<>> /\ eventQ = <<>>
    /\ wpc = "idle" /\ lastOk

\* When settled, the snapshot is what a read under the active filter gives.
Converged == Settled => tasks = FetchTodos(db, TaskQueryFrom(filter))

\* C17: every Action is sent with the filter active when it is sent, and
\* the list converges: whenever both channels are empty, the worker is
\* idle and the Action finished last ended with a successful read, the
\* snapshot is the service's answer to a read under the active filter.
C17_ConvergesToActiveFilter ==
    /\ []Converged
    /\ [][ Len(actionQ') > Len(actionQ) =>
             actionQ'[Len(actionQ')].filter = filter' ]_vars

\* Two Actions were processed, the second after the filter was changed.
C17_Witness ==
    /\ Settled
    /\ taken = 2
    /\ filter # FilterAll
    /\ Len(tasks) < Len(db)

\* The table holds a task of this id.
Holds(table, id) == \E i \in 1..Len(table) : table[i].id = id

\* C18: when the write of an Update or Delete names an id the service
\* does not hold, the write returns an error, so that the worker sends
\* exactly one Error event and no TasksFetched.
C18_MissingIdIsError ==
    [][ ( /\ wpc = "write" /\ wcur.kind \in {"Update", "Delete"}
          /\ ~Holds(db, wcur.id)
          /\ wpc' # "write" ) => wpc' = "write_err" ]_vars

\* The optional fields an update can carry.
OptTexts == {None} \cup {Some(t) : t \in Texts}
OptDones == {None} \cup {Some(b) : b \in BOOLEAN}
OptPriorities == {None} \cup {Some(p) : p \in Priorities}

\* new is old with the named fields of task id replaced and nothing else.
OnlyNamedChanged(old, new, id, text, done, pr) ==
    /\ Len(new) = Len(old)
    /\ \A i \in 1..Len(old) :
          IF old[i].id = id
          THEN /\ new[i].id = id
               /\ new[i].text = (IF text = None THEN old[i].text ELSE text[1])
               /\ new[i].done = (IF done = None THEN old[i].done ELSE done[1])
               /\ new[i].priority =
                      (IF pr = None THEN old[i].priority ELSE pr[1])
          ELSE new[i] = old[i]

\* C19: a partial update changes only what it names: when the service is
\* about to apply an Update of a task, then for every subset of text, done
\* and priority the update may carry, the absent fields of that task keep
\* their value, the present ones take the new value and every other task
\* is unchanged.
C19_PartialUpdateFrame ==
    (wpc = "write" /\ wcur.kind = "Update") =>
        /\ wcur.text \in OptTexts /\ wcur.done \in OptDones
        /\ wcur.priority \in OptPriorities
        /\ \A text \in OptTexts, done \in OptDones, pr \in OptPriorities :
              OnlyNamedChanged(db, UpdateTask(db, wcur.id, text, done, pr),
                               wcur.id, text, done, pr)

\* An Update was applied and changed the table.
C19_Witness ==
    /\ wpc = "read" /\ wcur.kind = "Update"
    /\ Len(db) = 3
    /\ db \notin InitialTables
    /\ Holds(db, wcur.id)

\* C20: the terminal is restored on every exit path: when main has ended
\* after raw mode was enabled (quit key, error returned from the loop,
\* panic in a key handler), raw mode is disabled.
C20_TerminalRestored ==
    uiPc \in {"quit", "failed", "panicked"} => rawMode = FALSE

\* Every id of the list is positive and below next_id, and no two tasks
\* share an id.
IdsPositiveDistinct ==
    \A i, j \in 1..Len(todo_list.tasks) :
        /\ todo_list.tasks[i].id > 0
        /\ todo_list.tasks[i].id < todo_list.next_id
        /\ (i # j) => todo_list.tasks[i].id # todo_list.tasks[j].id

\* A step keeps the id of every task and adds at most one task, which is
\* not done, of priority Low, and of a positive id no task had.
IdsKeptAndFresh ==
    LET old == todo_list.tasks
        new == todo_list'.tasks
    IN  /\ Len(new) \in {Len(old), Len(old) + 1}
        /\ \A i \in 1..Len(old) : new[i].id = old[i].id
        /\ Len(new) = Len(old) + 1 =>
              /\ new[Len(new)].done = FALSE
              /\ new[Len(new)].priority = "Low"
              /\ new[Len(new)].id > 0
              /\ \A i \in 1..Len(old) : old[i].id # new[Len(new)].id

\* The service's insert appends to its table one row of the text given,
\* not done, of priority Low and of a positive id no row has, and keeps
\* the rows it had.
ServiceAddFresh ==
    \A text \in Texts :
        LET new == AddTodo(db, text)
            row == new[Len(new)]
        IN  /\ Len(new) = Len(db) + 1
            /\ SubSeq(new, 1, Len(db)) = db
            /\ row.text = text /\ row.done = FALSE /\ row.priority = "Low"
            /\ row.id > 0
            /\ \A i \in 1..Len(db) : db[i].id # row.id

\* C21: a created task is not done, has priority Low and a fresh positive
\* id, in the TodoList and in the service's table: after any sequence of
\* add, mark_done and set_priority on a TodoList all ids are positive and
\* pairwise distinct, and no operation changes the id of an existing task.
C21_IdsPositiveDistinctStable ==
    /\ []IdsPositiveDistinct
    /\ []ServiceAddFresh
    /\ [][IdsKeptAndFresh]_vars

\* Three tasks were added, one was marked done and one got a priority.
C21_Witness ==
    /\ Len(todo_list.tasks) = 3
    /\ todo_list.tasks[1].done
    /\ todo_list.tasks[2].priority = "High"
    /\ ~todo_list.tasks[3].done

\* The payload of the last TasksFetched among events, start if there is
\* none.
LastFetched(start, events) ==
    LET fetched == {i \in 1..Len(events) : events[i].type = "TasksFetched"}
    IN  IF fetched = {} THEN start
        ELSE events[CHOOSE i \in fetched : \A j \in fetched : j <= i].tasks

\* C22: a drain takes the queued events in arrival order and ends only on
\* an empty queue; the snapshot is then the payload of the last
\* TasksFetched drained, or what it was if there was none; a drained Error
\* changes no UI state, and no drained event changes anything but the
\* snapshot.
C22_DrainAppliesAllInOrder ==
    /\ [](uiPc = "drain" =>
             tasks = LastFetched(drainLog.start, drainLog.events))
    /\ [][ /\ (uiPc = "drain" /\ uiPc' = "poll") => eventQ = <<>>
           /\ DrainOne =>
                /\ drainLog'.events = Append(drainLog.events, Head(eventQ))
                /\ eventQ' = Tail(eventQ)
                /\ UNCHANGED <<todo_state, filter_state, input, mode, filter,
                               currently_editing_id, priority>>
                /\ Head(eventQ).type = "Error" => tasks' = tasks ]_vars

\* A drain that applied a list and then an Error has come to its end.
C22_Witness ==
    /\ uiPc = "drain" /\ eventQ = <<>>
    /\ Len(drainLog.events) = 2
    /\ drainLog.events[1].type = "TasksFetched"
    /\ drainLog.events[2].type = "Error"
    /\ tasks # drainLog.start

\* The filters, and the selector of each.
Filters == {FilterAll, FilterTodo, FilterDone}
               \cup {FilterPriority(p) : p \in Priorities}
SelectorTable(f) ==
    CASE f = FilterAll  -> [done |-> None, priority |-> None]
      [] f = FilterTodo -> [done |-> Some(FALSE), priority |-> None]
      [] f = FilterDone -> [done |-> Some(TRUE), priority |-> None]
      [] OTHER          -> [done |-> None, priority |-> Some(f[2])]

\* The filter a selector came from.
FilterOfQuery(q) ==
    CASE IsSome(q.priority)  -> FilterPriority(Unwrap(q.priority))
      [] q.done = Some(TRUE)  -> FilterDone
      [] q.done = Some(FALSE) -> FilterTodo
      [] OTHER                -> FilterAll

\* Each filter gives the selector of the table, the filter is recovered
\* from its selector, and distinct filters give distinct selectors.
ConversionLossless ==
    /\ \A f \in Filters :
          /\ TaskQueryFrom(f) = SelectorTable(f)
          /\ FilterOfQuery(TaskQueryFrom(f)) = f
    /\ \A f, g \in Filters : (f # g) => TaskQueryFrom(f) # TaskQueryFrom(g)

\* The tasks of the table that match the filter.
Matching(table, f) ==
    SelectSeq(table, LAMBDA t :
        /\ (f = FilterTodo) => ~t.done
        /\ (f = FilterDone) => t.done
        /\ (f[1] = "Priority") => t.priority = f[2])

\* C23: the conversion from Filter to selector is lossless: each filter
\* gives the selector of the table, distinct filters give distinct
\* selectors and the filter is recovered from its selector; and a read of
\* the service returns exactly the tasks that match every set selector.
C23_FilterToQueryLossless ==
    /\ ConversionLossless
    /\ wpc = "read" =>
          \A f \in Filters :
              FetchTodos(db, TaskQueryFrom(f)) = Matching(db, f)

\* A read under Priority(Medium) is in flight.
C23_Witness ==
    /\ wpc = "read"
    /\ wcur.filter = FilterPriority("Medium")
    /\ Len(FetchTodos(db, TaskQueryFrom(wcur.filter))) = 1

\* C24: the UI loop ends only by the quit key: no key handler aborts the
\* loop, whatever keys are pressed and whatever events are drained between
\* them.
C24_NoHandlerAborts == uiPc # "panicked"

\* An Update as the toggle key sends it.
IsToggle(a) ==
    a.kind = "Update" /\ a.text = None /\ a.priority = None /\ IsSome(a.done)

\* The done flag the table holds for the task of this id.
DoneOf(table, id) ==
    table[CHOOSE i \in 1..Len(table) : table[i].id = id].done

\* C25: toggles are not lost: when two toggles of the same task are under
\* way (the first in its write, the second next in the channel) and both
\* are applied, the done flag of the task is back at its value.
C25_TwoTogglesRestoreDone ==
    ( /\ wpc = "write" /\ IsToggle(wcur)
      /\ actionQ # <<>> /\ IsToggle(Head(actionQ))
      /\ Head(actionQ).id = wcur.id
      /\ Holds(db, wcur.id) ) =>
        DoneOf(ApplyWrite(ApplyWrite(db, wcur), Head(actionQ)), wcur.id)
            = DoneOf(db, wcur.id)

\* C26: the filter named in the title of the task list is the active
\* filter: the title reads as the active filter does, so under
\* Priority(p) the considered priority is p.
C26_TitleShowsActiveFilter ==
    /\ list_filter = FilterText(filter)
    /\ filter[1] = "Priority" => priority = filter[2]

\* C27: at every key-handling step in Normal mode the cursor of the task
\* list is unset or on a task of the snapshot.
C27_CursorValidAtKeys ==
    (uiPc = "poll" /\ mode = "Normal") =>
        (todo_state = None \/ Unwrap(todo_state) < Len(tasks))

====
